---- MODULE Spec2Model ----
(***************************************************************************)
(* Perturbation search engine of pad4amd: the bit-coordinate-ascent attack *)
(* (core/attack/bca.py) and the orthogonal stepwise-max attack             *)
(* (core/attack/orthogonal_stepwise_max.py), modelled as one attack call   *)
(* against a gradient oracle.                                              *)
(*                                                                         *)
(* Feature values are fixed-point numbers in tenths: 0 is 0.0, Half is 0.5 *)
(* and One is 1.0.  Gradient components are small integers.                *)
(***************************************************************************)
EXTENDS Integers, Sequences, FiniteSets, TLC

\* ------------------------------------------------------------------ bounds
NS == 2            \* samples of a batch
ND == 2            \* feature dimensions of a vector
MaxM == 2          \* largest step budget m of BCA
MaxLambda == 2     \* largest max_lambda_ (min_lambda_ is the unit)
MaxBase == 2       \* largest escalation base
MaxRounds == 4     \* rounds of the lambda loop followed by the model
MaxSteps == 2      \* largest steps of OrthogonalStepwiseMax.perturb
MaxCheck == 2      \* largest step_check
ScenarioND == 10   \* dimensions of the bit-coordinate-ascent scenario

\* ------------------------------------------------------- program constants
Half == 5                      \* 0.5 in tenths
One == 2 * Half                \* 1.0 in tenths

VARIABLES
    attack,        \* "bca" or "osm": the class whose perturb is called
    model,         \* the oracle: [has_forward_g, evade]
    cfg,           \* arguments of the call and fields set by __init__
    heap,          \* tensor storage: "x" is the caller's, "adv" the clone
    adv_x,         \* perturb's adv_x: the storage it names ("none" before)
    lambda_,       \* self.lambda_
    done,          \* done of the last success check, per row of that check
    active,        \* ~done of perturb's last check, per sample of the batch
    sub_x,         \* _perturb's local adv_x: the rows of the active samples
    grad,          \* BCA: oracle gradient of the last step, per row;
                   \* OSM: the gradient selected to drive the update
    grad_classifier, grad_detector,              \* OSM: constrained gradients
    grad_classifier_proj, grad_detector_proj,    \* OSM: after the projection
    has_attack_succeeded,                        \* OSM: per row, line 170/172
    adv_x_linf,    \* OSM: _perturb's candidate of the L-infinity steps
    adv_x_l2,      \* OSM: _perturb's candidate of the L2 steps
    adv_x_l1,      \* OSM: _perturb's candidate of the L1 steps
    answer,        \* OSM: per row, what the model returned in the last step
    pert_x_cont,   \* OSM: the continuous candidates kept at the last checkpoint
    prev_done,     \* OSM: done of the previous checkpoint
    mini_steps,    \* OSM: the checkpoint chunks
    i,             \* OSM: index of the checkpoint round
    err,           \* the exception that ended the call ("" when none)
    t,             \* loop index of _perturb
    rounds,        \* calls of _perturb made by this call of perturb
    n_grad,        \* gradient queries issued by this call
    n_escal,       \* executions of self.lambda_ *= base
    n_rand,        \* calls of get_x0 made by this call
    frozen,        \* per sample: the vector it had when first reported done
    x_orig,        \* the values of the caller's batch when perturb was called
    start_x,       \* the batch _perturb was called with
    grads,         \* BCA: per row, the oracle gradients of the steps so far
    exit_seen,     \* "no", or the success check that found every row done
    trainer,       \* the locals and the files of a run of fit (<<>> outside one)
    pc,            \* position of the call
    ret            \* the storage returned ("none" before the return)

vars == <<attack, model, cfg, heap, adv_x, lambda_, done, active, sub_x, grad,
          grad_classifier, grad_detector, grad_classifier_proj, grad_detector_proj,
          has_attack_succeeded, adv_x_linf, adv_x_l2, adv_x_l1, answer, pert_x_cont,
          prev_done, mini_steps, i, err,
          t, rounds, n_grad, n_escal, n_rand, frozen, x_orig, start_x, grads, exit_seen,
          trainer, pc, ret>>

\* the locals of OrthogonalStepwiseMax
osm_vars == <<grad_classifier, grad_detector, grad_classifier_proj,
              grad_detector_proj, has_attack_succeeded, adv_x_linf, adv_x_l2,
              adv_x_l1, answer, pert_x_cont, prev_done, mini_steps, i>>

NoVec == <<>>

\* a local name of a Python function before its first assignment
Unbound == "unbound"

\* ----------------------------------------------------------- small helpers
Dims(nd) == 1..nd

Max2(a, b) == IF a >= b THEN a ELSE b
Min2(a, b) == IF a <= b THEN a ELSE b

\* torch.clamp(v, min=0., max=1.)
Clamp(v) == Max2(0, Min2(One, v))

\* number of rows of a batch and of kept rows before row smp (boolean indexing)
Rank(keep, smp) == Cardinality({j \in 1..smp : keep[j]})
NKept(keep) == Cardinality({j \in DOMAIN keep : keep[j]})

\* b[keep]: the rows of b where keep holds, in order
Gather(b, keep) ==
    [r \in 1..NKept(keep) |->
        b[CHOOSE smp \in DOMAIN keep : keep[smp] /\ Rank(keep, smp) = r]]

ScatterDropped(b, keep, rows) == b

\* b[keep] = rows: row r of rows goes to the r-th kept row of b
Scatter(b, keep, rows) ==
    [smp \in DOMAIN b |-> IF keep[smp] THEN rows[Rank(keep, smp)] ELSE b[smp]]

NotNone(flags) == [smp \in DOMAIN flags |-> TRUE]

Not(flags) == [smp \in DOMAIN flags |-> ~flags[smp]]
AllNever(flags) == FALSE

\* torch.all(done)
All(flags) == \A smp \in DOMAIN flags : flags[smp]

\* ------------------------------------------------------------- the oracle
\* success predicate of get_loss: a function of the vector alone.  The
\* oracles of the model are: every vector evades (evade = 0), the vectors
\* with feature p on evade (evade = p), no vector evades (evade > dimensions)
Evades(v) == model.evade = 0 \/ (model.evade \in DOMAIN v /\ v[model.evade] > Half)

\* done of BaseAttack.get_loss, one flag per row of the batch
get_loss(b) == [smp \in DOMAIN b |-> Evades(b[smp])]

\* BaseAttack.check_lambda(model): lambda is escalated only against an oracle
\* with two objectives
check_lambda == model.has_forward_g

\* gradients the oracle may answer for one row of a BCA step: negative
\* everywhere, or positive everywhere with one favoured position
GradFam(nd) ==
    {[d \in Dims(nd) |-> -1]}
    \cup {[d \in Dims(nd) |-> IF d = p THEN 2 ELSE 1] : p \in Dims(nd)}

ZeroVec(nd) == [d \in Dims(nd) |-> 0]

\* v rotated by k positions
Rot(v, k) == [d \in DOMAIN v |-> v[((d - 1 + k) % Len(v)) + 1]]

\* gradient batches: the gradient drawn for the step goes to every row, or
\* to row r rotated by r - 1 positions so that rows differ; the rows that
\* are done get the zero gradient
GradBatches(d, nd) ==
    {[r \in DOMAIN d |-> IF d[r] THEN ZeroVec(nd) ELSE Rot(g, k * (r - 1))] :
        g \in GradFam(nd), k \in 0..1}

\* -------------------------------------------------------------- storage
DetachCloneAlias(ref) == ref

\* x.detach().clone(): the result lives in storage of its own
DetachClone(ref) == "adv"

\* get_x0(adv_x, rounding_threshold, is_sample=True): the random start ORs
\* random bits into the (byte-truncated) vector
get_x0_vec(v, rand) == [d \in DOMAIN v |-> IF rand[d] \/ v[d] >= One THEN One ELSE 0]

\* random bits drawn for one row: none, all, or the first position only
RandFam(nd) ==
    {[d \in Dims(nd) |-> FALSE], [d \in Dims(nd) |-> TRUE], [d \in Dims(nd) |-> d = 1]}

\* the random starts followed: the same draw in every row
X0Batches(b, nd) ==
    {[r \in DOMAIN b |-> get_x0_vec(b[r], rnd)] : rnd \in RandFam(nd)}

\* the random starts followed for OrthogonalStepwiseMax: the same draw, none
\* or all, in every row
OsmX0Batches(b, nd) ==
    {[r \in DOMAIN b |-> get_x0_vec(b[r], [d \in Dims(nd) |-> bit])] : bit \in BOOLEAN}

\* -------------------------------------------- bit coordinate ascent step
Grad4InsertionAnywhere(g, v) == [d \in DOMAIN v |-> IF g[d] > 0 THEN g[d] ELSE 0]

\* line 79: (grad > 0) * grad * (adv_x <= 0.5)
Grad4Insertion(g, v) == [d \in DOMAIN v |-> IF g[d] > 0 /\ v[d] <= Half THEN g[d] ELSE 0]

\* line 82: torch.max(..., dim=-1) returns the first maximal position
ArgMax(g) == CHOOSE p \in DOMAIN g :
                /\ \A q \in DOMAIN g : g[q] <= g[p]
                /\ \A q \in DOMAIN g : q < p => g[q] < g[p]

\* the position and its neighbour set together
OneHotPair(p, nd) == [d \in Dims(nd) |-> IF d = p \/ d = (p % nd) + 1 THEN 1 ELSE 0]

\* line 83: F.one_hot(pos)
OneHot(p, nd) == [d \in Dims(nd) |-> IF d = p THEN 1 ELSE 0]

MaskDoneNever(pert, isdone) == pert

\* line 85: perturbation[done] = 0.
MaskDone(pert, isdone) == IF isdone THEN [d \in DOMAIN pert |-> 0] ELSE pert

BcaStepRowMinus(v, g, isdone) ==
    LET pert == MaskDone(OneHot(ArgMax(Grad4Insertion(g, v)), Len(v)), isdone)
    IN  [d \in DOMAIN v |-> Clamp(v[d] - One * pert[d])]

\* lines 79-86 for one row
BcaStepRow(v, g, isdone) ==
    LET pert == MaskDone(OneHot(ArgMax(Grad4Insertion(g, v)), Len(v)), isdone)
    IN  [d \in DOMAIN v |-> Clamp(v[d] + One * pert[d])]

\* -------------------------------------------------------- history helpers
Inc(c) == c + 1

\* the success check that found every row done, if one did
SeenExit(seen, d, which) == IF \A r \in DOMAIN d : d[r] THEN which ELSE seen

\* the first success report of a sample records its vector
FreezeAll(fr, b, d) ==
    [smp \in DOMAIN fr |-> IF fr[smp] = NoVec /\ d[smp] THEN b[smp] ELSE fr[smp]]

FreezeRows(fr, act, rows, d) ==
    [smp \in DOMAIN fr |->
        IF fr[smp] = NoVec /\ act[smp] /\ d[Rank(act, smp)] THEN rows[Rank(act, smp)] ELSE fr[smp]]

\* ------------------------------------------------------------------ Init
\* batches of binary vectors: the same vector in every row, row r the
\* vector rotated by r - 1 positions, or the vector over all-zero rows
BinBatches(n, nd) ==
    {[r \in 1..n |-> v] : v \in [Dims(nd) -> {0, One}]}
    \cup {[r \in 1..n |-> Rot(v, r - 1)] : v \in [Dims(nd) -> {0, One}]}
    \cup {[r \in 1..n |-> IF r = 1 THEN v ELSE [d \in Dims(nd) |-> 0]] :
             v \in [Dims(nd) -> {0, One}]}

\* step lengths are in tenths as the feature values are: sl_linf is 0.1
OsmDefaults == [steps |-> 0, step_check |-> 1, sl_l1 |-> One, sl_l2 |-> One,
                sl_linf |-> 1, project_detector |-> FALSE,
                project_classifier |-> FALSE, k |-> 0, use_random |-> FALSE,
                manipulation_x |-> <<>>, verbose |-> FALSE, entry |-> "perturb"]

BcaDefaults == [m |-> 0, min_lambda_ |-> 1, max_lambda_ |-> 1, base |-> 1,
                use_sample |-> FALSE, verbose |-> FALSE, entry |-> "perturb"]

\* the calls followed: every step budget and random start under a fixed
\* lambda, every lambda range and base with a budget of one step, and the
\* random start under the widest lambda range
BcaConfigs ==
    {[m |-> mm, min_lambda_ |-> 1, max_lambda_ |-> 1, base |-> 1, use_sample |-> us] :
        mm \in 0..MaxM, us \in BOOLEAN}
    \cup {[m |-> 1, min_lambda_ |-> lo, max_lambda_ |-> hi, base |-> bs,
           use_sample |-> FALSE] :
              lo \in 0..1, hi \in 0..MaxLambda, bs \in 0..MaxBase}
    \cup {[m |-> 1, min_lambda_ |-> 1, max_lambda_ |-> MaxLambda, base |-> MaxBase,
           use_sample |-> TRUE]}

Models(nd) == [has_forward_g : BOOLEAN, evade : 0..(nd + 1)]

InitCommon(b) ==
    /\ heap = [r \in {"x", "adv"} |-> IF r = "x" THEN b ELSE <<>>]
    /\ adv_x = "none"
    /\ lambda_ = 1
    /\ done = <<>>
    /\ active = [smp \in DOMAIN b |-> FALSE]
    /\ sub_x = <<>>
    /\ grad = <<>>
    /\ grad_classifier = <<>>
    /\ grad_detector = <<>>
    /\ grad_classifier_proj = <<>>
    /\ grad_detector_proj = <<>>
    /\ has_attack_succeeded = <<>>
    /\ adv_x_linf = Unbound
    /\ adv_x_l2 = Unbound
    /\ adv_x_l1 = Unbound
    /\ answer = <<>>
    /\ pert_x_cont = "None"
    /\ prev_done = "None"
    /\ mini_steps = <<>>
    /\ i = 0
    /\ err = ""
    /\ t = 0
    /\ rounds = 0
    /\ n_grad = 0
    /\ n_escal = 0
    /\ n_rand = 0
    /\ frozen = [smp \in DOMAIN b |-> NoVec]
    /\ x_orig = b
    /\ start_x = <<>>
    /\ grads = <<>>
    /\ exit_seen = "no"
    /\ pc = "start"
    /\ ret = "none"

InitBca ==
    /\ attack = "bca"
    /\ trainer = <<>>
    /\ model \in Models(ND)
    /\ \E c \in BcaConfigs : cfg = c @@ OsmDefaults
    /\ \E b \in BinBatches(NS, ND) : InitCommon(b)

\* the scenario of the specification: one all-zero vector of ScenarioND
\* dimensions, lambda fixed at 1, an oracle that never reports success
InitBcaScenario ==
    /\ attack = "bca"
    /\ trainer = <<>>
    /\ model = [has_forward_g |-> FALSE, evade |-> ScenarioND + 1]
    /\ cfg = [m |-> 2, min_lambda_ |-> 1, max_lambda_ |-> 1, base |-> 1,
              use_sample |-> FALSE] @@ OsmDefaults
    /\ InitCommon([smp \in 1..1 |-> ZeroVec(ScenarioND)])

\* vectors of the batches given to OrthogonalStepwiseMax
OsmVecs(nd) ==
    {[d \in Dims(nd) |-> v] : v \in {0, Half, One}}
    \cup {[d \in Dims(nd) |-> IF d = 1 THEN One ELSE 0]}

\* batches given to OrthogonalStepwiseMax: the same vector in every row, or
\* a first row that differs from the others
OsmBatches(n, nd) ==
    {[r \in 1..n |-> v] : v \in OsmVecs(nd)}
    \cup {[r \in 1..n |-> IF r = 1 THEN [d \in Dims(nd) |-> IF d = 1 THEN One ELSE 0]
                           ELSE ZeroVec(nd)]}

\* removal masks: nothing removable, everything, the first feature only
OsmMasks(nd) ==
    {[d \in Dims(nd) |-> FALSE], [d \in Dims(nd) |-> TRUE], [d \in Dims(nd) |-> d = 1]}

\* the calls followed: every budget and checkpoint distance with the
\* defaults of __init__, and every setting of __init__ with one step
OsmConfigs(nd) ==
    {[OsmDefaults EXCEPT !.steps = st, !.step_check = sc,
                         !.manipulation_x = [d \in Dims(nd) |-> TRUE]] :
        st \in (-1)..MaxSteps, sc \in 0..MaxCheck}
    \cup {[steps |-> 1, step_check |-> 1, sl_l1 |-> One, sl_l2 |-> One, sl_linf |-> 1,
           project_detector |-> pd, project_classifier |-> pcl, k |-> kk,
           use_random |-> ur, manipulation_x |-> mx] :
              pd \in BOOLEAN, pcl \in BOOLEAN, kk \in {0, MaxCheck}, ur \in BOOLEAN,
              mx \in OsmMasks(nd)}

InitOsm ==
    /\ attack = "osm"
    /\ trainer = <<>>
    /\ model \in Models(ND)
    /\ \E c \in OsmConfigs(ND) : cfg = c @@ BcaDefaults
    /\ \E b \in OsmBatches(NS, ND) : InitCommon(b)

\* the calls on a batch of no samples: perturb, with and without verbose,
\* and the step attack _perturb called on its own
InitEmpty ==
    /\ attack \in {"bca", "osm"}
    /\ trainer = <<>>
    /\ \E g \in BOOLEAN : model = [has_forward_g |-> g, evade |-> 0]
    /\ \E v \in BOOLEAN, e \in {"perturb", "_perturb"} :
          cfg = [BcaDefaults @@ OsmDefaults EXCEPT !.m = 1, !.steps = 1,
                                                   !.verbose = v, !.entry = e]
    /\ InitCommon(<<>>)

Init == InitBca \/ InitBcaScenario \/ InitOsm \/ InitEmpty

NDims == Len(heap["x"][1])

\* ------------------------------------------------------------ BCA.perturb
\* line 106: while self.lambda_ <= max_lambda_
LambdaInRange(l, hi) == l <= hi

LambdaBoundsUnsigned(lo, hi) == lo <= hi

\* line 99: assert 0 < min_lambda_ <= max_lambda_
LambdaBoundsOk(lo, hi) == 0 < lo /\ lo <= hi

EscalateStuck(l, b) == l

\* line 117: self.lambda_ *= base
Escalate(l, b) == l * b

\* bca.py:122-123 and orthogonal_stepwise_max.py:93-94: with verbose the
\* share of done samples is logged, a division by the number of samples
LogDivides(verbose, n) == ~verbose \/ n # 0

\* bca.py:63-64 and orthogonal_stepwise_max.py:116-117: _perturb called on
\* its own with a batch of no samples returns a new empty list
StepEntryEmpty ==
    /\ pc = "start" /\ cfg.entry = "_perturb" /\ Len(heap["x"]) <= 0
    /\ heap' = [heap EXCEPT !["adv"] = <<>>]
    /\ ret' = "adv"
    /\ pc' = "returned"
    /\ UNCHANGED osm_vars
    /\ UNCHANGED <<attack, model, cfg, trainer, x_orig, adv_x, lambda_, done, active, sub_x,
                   grad, err, t, rounds, n_grad, n_escal, n_rand, frozen, start_x, grads,
                   exit_seen>>

\* lines 99-105: the assertion, the start value of lambda, the clone
BcaBegin ==
    /\ attack = "bca" /\ pc = "start" /\ cfg.entry = "perturb"
    /\ IF ~LambdaBoundsOk(cfg.min_lambda_, cfg.max_lambda_)
       THEN /\ pc' = "error"
            /\ err' = "AssertionError"
            /\ UNCHANGED <<heap, adv_x, lambda_>>
       ELSE /\ lambda_' = IF model.has_forward_g THEN cfg.min_lambda_ ELSE cfg.max_lambda_
            /\ adv_x' = DetachClone("x")
            /\ heap' = [heap EXCEPT ![adv_x'] = heap["x"]]
            /\ pc' = "bca_outer"
            /\ UNCHANGED err
    /\ UNCHANGED osm_vars
    /\ UNCHANGED <<attack, model, cfg, trainer, x_orig, done, active, sub_x, grad, t, rounds,
                   n_grad, n_escal, n_rand, frozen, start_x, grads, exit_seen, ret>>

\* lines 106-115 and the entry of _perturb (lines 63-67): the loop test, the
\* success check, the break, the call of _perturb on the rows not done
BcaOuterCheck ==
    /\ attack = "bca" /\ pc = "bca_outer"
    /\ IF ~LambdaInRange(lambda_, cfg.max_lambda_)
       THEN /\ pc' = "bca_final"
            /\ UNCHANGED <<done, active, sub_x, t, rounds, frozen, start_x, grads,
                           exit_seen>>
       ELSE LET b == heap[adv_x]
                d == get_loss(b)
            IN  /\ done' = d
                /\ frozen' = FreezeAll(frozen, b, d)
                /\ exit_seen' = SeenExit(exit_seen, d, "outer")
                /\ IF All(d)
                   THEN /\ pc' = "bca_final"
                        /\ UNCHANGED <<active, sub_x, t, rounds, start_x, grads>>
                   ELSE /\ rounds < MaxRounds
                        /\ active' = Not(d)
                        /\ sub_x' = Gather(b, Not(d))
                        /\ start_x' = sub_x'
                        /\ grads' = [r \in DOMAIN sub_x' |-> <<>>]
                        /\ t' = 0
                        /\ rounds' = Inc(rounds)
                        /\ pc' = IF cfg.m > 0 THEN "bca_inner" ELSE "bca_ret"
    /\ UNCHANGED <<osm_vars, err>>
    /\ UNCHANGED <<attack, model, cfg, trainer, x_orig, heap, adv_x, lambda_, grad, n_grad,
                   n_escal, n_rand, ret>>

\* lines 68-86: one iteration of the loop of _perturb
BcaStep ==
    /\ attack = "bca" /\ pc = "bca_inner" /\ t < cfg.m
    /\ \E x0 \in IF cfg.use_sample /\ t = 0 THEN X0Batches(sub_x, NDims) ELSE {sub_x} :
         LET d == get_loss(x0)
         IN  /\ done' = d
             /\ frozen' = FreezeRows(frozen, active, x0, d)
             /\ exit_seen' = SeenExit(exit_seen, d, "inner")
             /\ IF All(d)
                THEN /\ sub_x' = x0
                     /\ pc' = "bca_ret"
                     /\ UNCHANGED <<grad, grads, t, n_grad>>
                ELSE \E g \in GradBatches(d, NDims) :
                     /\ grad' = g
                     /\ grads' = [r \in DOMAIN x0 |-> Append(grads[r], g[r])]
                     /\ n_grad' = Inc(n_grad)
                     /\ sub_x' = [r \in DOMAIN x0 |-> BcaStepRow(x0[r], g[r], d[r])]
                     /\ t' = t + 1
                     /\ pc' = IF t + 1 < cfg.m THEN "bca_inner" ELSE "bca_ret"
    /\ n_rand' = IF cfg.use_sample /\ t = 0 THEN Inc(n_rand) ELSE n_rand
    /\ UNCHANGED <<osm_vars, err>>
    /\ UNCHANGED <<attack, model, cfg, trainer, x_orig, heap, adv_x, lambda_, active, rounds,
                   n_escal, start_x, ret>>

\* line 87 and lines 116-119: _perturb returns, the rows are written back,
\* lambda is multiplied by base, check_lambda decides on another round
BcaInnerReturn ==
    /\ attack = "bca" /\ pc = "bca_ret"
    /\ heap' = [heap EXCEPT ![adv_x] = Scatter(heap[adv_x], active, sub_x)]
    /\ lambda_' = Escalate(lambda_, cfg.base)
    /\ n_escal' = Inc(n_escal)
    /\ UNCHANGED n_rand
    /\ pc' = IF check_lambda THEN "bca_outer" ELSE "bca_final"
    /\ sub_x' = <<>> /\ start_x' = <<>> /\ grad' = <<>> /\ grads' = <<>> /\ t' = 0
    /\ UNCHANGED <<osm_vars, err>>
    /\ UNCHANGED <<attack, model, cfg, trainer, x_orig, adv_x, done, active, rounds,
                   n_grad, frozen, exit_seen, ret>>

\* lines 120-124: the closing success check and the return
BcaFinal ==
    /\ attack = "bca" /\ pc = "bca_final"
    /\ done' = get_loss(heap[adv_x])
    /\ frozen' = FreezeAll(frozen, heap[adv_x], done')
    /\ IF LogDivides(cfg.verbose, Len(heap["x"]))
       THEN ret' = adv_x /\ pc' = "returned" /\ UNCHANGED err
       ELSE pc' = "error" /\ err' = "ZeroDivisionError" /\ UNCHANGED ret
    /\ UNCHANGED osm_vars
    /\ UNCHANGED <<attack, model, cfg, trainer, x_orig, heap, adv_x, lambda_, active, sub_x,
                   grad, t, rounds, n_grad, n_escal, n_rand, start_x, grads, exit_seen>>

\* ------------------------------------------- OrthogonalStepwiseMax helpers
Dot(g, h) == LET RECURSIVE S(_)
                 S(d) == IF d = 0 THEN 0 ELSE g[d] * h[d] + S(d - 1)
             IN  S(Len(g))

Sign(a) == IF a > 0 THEN 1 ELSE IF a < 0 THEN -1 ELSE 0

\* lines 53-54: the checkpoint chunks
MiniSteps(steps, step_check) ==
    LET full == [j \in 1..(steps \div step_check) |-> step_check]
    IN  IF steps % step_check # 0 THEN Append(full, steps % step_check) ELSE full

\* the removal mask ignored: every set feature counts as removable
trans_grads_unmasked(gradients, adv_features, manipulation_x) ==
    [d \in DOMAIN gradients |->
        IF gradients[d] >= 0
        THEN (IF adv_features[d] <= Half THEN gradients[d] ELSE 0)
        ELSE (IF adv_features[d] > Half THEN gradients[d] ELSE 0)]

\* lines 208-217: the constraint model applied to one row's gradient
trans_grads(gradients, adv_features, manipulation_x) ==
    [d \in DOMAIN gradients |->
        LET pos_insertion == adv_features[d] <= Half /\ adv_features[d] >= 0
            grad4insertion == IF gradients[d] >= 0 /\ pos_insertion THEN gradients[d] ELSE 0
            pos_removal == adv_features[d] > Half
            grad4removal == IF gradients[d] < 0 /\ pos_removal /\ manipulation_x[d]
                            THEN gradients[d] ELSE 0
        IN  grad4removal + grad4insertion]

\* A projected gradient is a vector of fractions num[d] / den with den > 0.
AsFrac(g) == [num |-> g, den |-> 1]

\* the component of g along h, kept instead of removed
ProjectKeepsComponent(g, h) ==
    LET hh == Dot(h, h)
        den == IF hh = 0 THEN 1 ELSE hh
    IN  [num |-> [d \in DOMAIN g |-> Dot(g, h) * h[d]], den |-> den]

\* lines 148-152 and 160-164: g - (g.h / (1e-20 + h.h)) h.  The gradients of
\* the model have integer components, for which 1e-20 + h.h is h.h in double
\* precision unless h is zero; then g.h is zero and so is the quotient.
Project(g, h) ==
    LET hh == Dot(h, h)
        den == IF hh = 0 THEN 1 ELSE hh
    IN  [num |-> [d \in DOMAIN g |-> g[d] * den - Dot(g, h) * h[d]], den |-> den]

\* the flag read the other way round
SelectOther(a, b, s) == IF s THEN a ELSE b

\* lines 182-186: a * (1 - s) + b * s for the 0/1 flag s
Select(a, b, s) == IF s THEN b ELSE a

\* lines 192-193: one L-infinity step on one row
LinfStepRow(v, g, step_length_linf) ==
    [d \in DOMAIN v |-> Clamp(v[d] + Sign(g.num[d]) * step_length_linf)]

\* the answers of the oracle to one step: the two raw gradients and the
\* success flag of the first row; row r gets them rotated by r - 1 positions
\* (and the flag alternated), so that rows differ
OsmGradFam(nd) ==
    {[d \in Dims(nd) |-> c] : c \in {-1, 0, 1}}
    \cup {[d \in Dims(nd) |-> IF d = 1 THEN c ELSE 0] : c \in {-1, 1}}

OsmAnswers(rows, nd) ==
    {[r \in rows |-> [classifier |-> Rot(gc, r - 1), detector |-> Rot(gd, r - 1),
                      succeeded |-> (s = (r % 2 = 1))]] :
        gc \in OsmGradFam(nd), gd \in OsmGradFam(nd), s \in BOOLEAN}

\* the period ignored: the classifier's gradient on the k-th steps
ToggleSwapped(tt, k, gdp, gcp) == IF tt % k = 0 THEN gcp ELSE gdp

\* lines 176-179: with a period k, which gradient drives step tt
Toggle(tt, k, gdp, gcp) == IF tt % k = 0 THEN gdp ELSE gcp

\* lines 129-186: the gradients of step tt of _perturb on the batch x0, from
\* the answers a of the model, up to the gradient selected for the update
StepGrads(a, x0, tt) ==
    LET gc == [r \in DOMAIN x0 |-> trans_grads(a[r].classifier, x0[r], cfg.manipulation_x)]
        gd == [r \in DOMAIN x0 |-> trans_grads(a[r].detector, x0[r], cfg.manipulation_x)]
        gdp == [r \in DOMAIN x0 |->
                   IF cfg.project_detector THEN Project(gd[r], gc[r]) ELSE AsFrac(gd[r])]
        gcp == [r \in DOMAIN x0 |->
                   IF cfg.project_classifier THEN Project(gc[r], gd[r]) ELSE AsFrac(gc[r])]
        g == [r \in DOMAIN x0 |->
                   IF cfg.k # 0
                   THEN Toggle(tt, cfg.k, gdp[r], gcp[r])
                   ELSE IF cfg.project_detector
                        THEN Select(gcp[r], gdp[r], a[r].succeeded)
                        ELSE Select(gdp[r], gcp[r], a[r].succeeded)]
    IN  [classifier |-> gc, detector |-> gd, detector_proj |-> gdp,
         classifier_proj |-> gcp, grad |-> g]

\* --------------------------------------------- OrthogonalStepwiseMax.perturb
\* lines 51-60: the assertion, the checkpoint chunks, the clone
OsmBegin ==
    /\ attack = "osm" /\ pc = "start" /\ cfg.entry = "perturb"
    /\ IF ~(cfg.steps >= 0 /\ 1 * One >= cfg.sl_l1 /\ cfg.sl_l1 > 0
            /\ cfg.sl_l2 >= 0 /\ cfg.sl_linf >= 0)
       THEN /\ pc' = "error"
            /\ err' = "AssertionError"
            /\ UNCHANGED <<heap, adv_x, mini_steps>>
       ELSE IF cfg.step_check = 0
       THEN /\ pc' = "error"
            /\ err' = "ZeroDivisionError"
            /\ UNCHANGED <<heap, adv_x, mini_steps>>
       ELSE /\ mini_steps' = MiniSteps(cfg.steps, cfg.step_check)
            /\ adv_x' = DetachClone("x")
            /\ heap' = [heap EXCEPT ![adv_x'] = heap["x"]]
            /\ pc' = "osm_check"
            /\ UNCHANGED err
    /\ UNCHANGED <<grad_classifier, grad_detector, grad_classifier_proj,
                   grad_detector_proj, has_attack_succeeded, adv_x_linf, adv_x_l2,
                   adv_x_l1, answer, pert_x_cont,
                   prev_done, i>>
    /\ UNCHANGED <<attack, model, cfg, trainer, x_orig, lambda_, done, active, sub_x, grad, t,
                   rounds, n_grad, n_escal, n_rand, frozen, start_x, grads, exit_seen, ret>>

\* lines 61-79 and the entry of _perturb (lines 116-123): the next chunk,
\* the success check, the break, the reseeding of the rows not done, the
\* call of _perturb with its assertion on the detector
OsmCheck ==
    /\ attack = "osm" /\ pc = "osm_check"
    /\ IF i >= Len(mini_steps)
       THEN /\ pc' = "osm_final"
            /\ UNCHANGED <<heap, done, active, sub_x, start_x, t, rounds, frozen,
                           exit_seen, prev_done, err>>
       ELSE LET b == heap[adv_x]
                d == get_loss(b)
            IN  /\ done' = d
                /\ frozen' = FreezeAll(frozen, b, d)
                /\ exit_seen' = SeenExit(exit_seen, d, "outer")
                /\ IF All(d)
                   THEN /\ pc' = "osm_final"
                        /\ UNCHANGED <<heap, active, sub_x, start_x, t, rounds,
                                       prev_done, err>>
                   ELSE /\ heap' = [heap EXCEPT ![adv_x] =
                                      Scatter(b, Not(d),
                                              IF i = 0 THEN Gather(heap["x"], Not(d))
                                              ELSE Gather(pert_x_cont, Gather(Not(d), Not(prev_done))))]
                        /\ prev_done' = d
                        /\ active' = Not(d)
                        /\ sub_x' = Gather(heap'[adv_x], Not(d))
                        /\ start_x' = sub_x'
                        /\ t' = 0
                        /\ rounds' = Inc(rounds)
                        /\ IF model.has_forward_g
                           THEN pc' = "osm_inner" /\ UNCHANGED err
                           ELSE pc' = "error" /\ err' = "AssertionError"
    /\ UNCHANGED <<grad_classifier, grad_detector, grad_classifier_proj,
                   grad_detector_proj, has_attack_succeeded, adv_x_linf, adv_x_l2,
                   adv_x_l1, answer, pert_x_cont,
                   mini_steps, i>>
    /\ UNCHANGED <<attack, model, cfg, trainer, x_orig, adv_x, lambda_, grad, grads, n_grad,
                   n_escal, n_rand, ret>>

\* lines 125-206: one iteration of the loop of _perturb.  adv_x_linf is read
\* at line 193 before any assignment to it, so the iteration raises
\* UnboundLocalError there (and adv_x_l2 at line 200 would raise it if
\* adv_x_linf were bound); lines 80-90 of perturb and the later chunks are
\* therefore never executed.
OsmStep ==
    /\ attack = "osm" /\ pc = "osm_inner" /\ t < mini_steps[i + 1]
    /\ \E x0 \in IF cfg.use_random /\ t = 0 THEN OsmX0Batches(sub_x, NDims) ELSE {sub_x} :
       \E a \in OsmAnswers(DOMAIN sub_x, NDims) :
         LET sg == StepGrads(a, x0, t)
             gc == sg.classifier
             gd == sg.detector
             gdp == sg.detector_proj
             gcp == sg.classifier_proj
             g == sg.grad
         IN  /\ sub_x' = x0
             /\ grad_classifier' = gc
             /\ grad_detector' = gd
             /\ grad_detector_proj' = gdp
             /\ grad_classifier_proj' = gcp
             /\ has_attack_succeeded' = [r \in DOMAIN x0 |-> a[r].succeeded]
             /\ grad' = g
             /\ answer' = a
             /\ n_grad' = Inc(Inc(n_grad))
             /\ adv_x_linf' = IF adv_x_linf = Unbound THEN Unbound
                              ELSE [r \in DOMAIN x0 |->
                                       LinfStepRow(adv_x_linf[r], g[r], cfg.sl_linf)]
             /\ pc' = "error"
             /\ err' = "UnboundLocalError"
    /\ n_rand' = IF cfg.use_random /\ t = 0 THEN Inc(n_rand) ELSE n_rand
    /\ UNCHANGED <<adv_x_l2, adv_x_l1, pert_x_cont, prev_done, mini_steps, i>>
    /\ UNCHANGED <<attack, model, cfg, trainer, x_orig, heap, adv_x, lambda_, done, active, t,
                   rounds, n_escal, frozen, start_x, grads, exit_seen, ret>>

\* lines 91-95: the closing success check and the return
OsmFinal ==
    /\ attack = "osm" /\ pc = "osm_final"
    /\ done' = get_loss(heap[adv_x])
    /\ frozen' = FreezeAll(frozen, heap[adv_x], done')
    /\ IF LogDivides(cfg.verbose, Len(done'))
       THEN ret' = adv_x /\ pc' = "returned" /\ UNCHANGED err
       ELSE pc' = "error" /\ err' = "ZeroDivisionError" /\ UNCHANGED ret
    /\ UNCHANGED osm_vars
    /\ UNCHANGED <<attack, model, cfg, trainer, x_orig, heap, adv_x, lambda_, active, sub_x,
                   grad, t, rounds, n_grad, n_escal, n_rand, start_x, grads, exit_seen>>

Next ==
    \/ BcaBegin \/ BcaOuterCheck \/ BcaStep \/ BcaInnerReturn \/ BcaFinal
    \/ OsmBegin \/ OsmCheck \/ OsmStep \/ OsmFinal
    \/ StepEntryEmpty

Spec == Init /\ [][Next]_vars

\* ======================================================== the properties
Samples == DOMAIN x_orig

\* the current adversarial vector of a sample: its row in _perturb while
\* _perturb runs on it, its row of perturb's adv_x otherwise
CurVec(smp) ==
    IF adv_x = "none" THEN x_orig[smp]
    ELSE IF pc \in {"bca_inner", "bca_ret", "osm_inner"} /\ active[smp]
         THEN sub_x[Rank(active, smp)]
         ELSE heap[adv_x][smp]

Batch == [smp \in Samples |-> CurVec(smp)]

Accepted == 0 < cfg.min_lambda_ /\ cfg.min_lambda_ <= cfg.max_lambda_

\* C1: in the returned batch a dimension that differs from the input was
\* turned on from an off position, or (OrthogonalStepwiseMax only) turned off
\* at a position the removal mask marks removable; BCA turns nothing off.
C1_Feasibility ==
    pc = "returned" =>
        \A smp \in Samples : \A d \in Dims(NDims) :
            LET a == x_orig[smp][d]
                b == heap[ret][smp][d]
            IN  b # a =>
                  \/ a <= Half /\ b > Half
                  \/ attack = "osm" /\ a > Half /\ b <= Half /\ cfg.manipulation_x[d]

C1_Witness ==
    /\ pc = "returned" /\ attack = "bca"
    /\ \E smp \in Samples : \E d \in Dims(NDims) : heap[ret][smp][d] # x_orig[smp][d]
    /\ \E smp \in Samples : \E d \in Dims(NDims) : x_orig[smp][d] > Half

\* C2: a sample that was reported done at a success check keeps the vector
\* it had at that check, at every later step, check and round and in the
\* returned batch.
C2_MonotonicFreeze ==
    \A smp \in Samples : frozen[smp] # NoVec => CurVec(smp) = frozen[smp]

C2_Witness ==
    /\ pc \in {"bca_inner", "bca_ret"} /\ t >= 2
    /\ \E s1 \in Samples : \E s2 \in Samples :
          /\ active[s1] /\ frozen[s1] # NoVec
          /\ active[s2] /\ frozen[s2] = NoVec
          /\ sub_x[Rank(active, s2)] # start_x[Rank(active, s2)]

\* C9: the caller's batch keeps the values it had when the call was made,
\* and the returned batch is other storage of the same shape.
C9_NoAliasing ==
    /\ heap["x"] = x_orig
    /\ pc = "returned" =>
          /\ ret # "x"
          /\ Len(heap[ret]) = Len(x_orig)
          /\ \A smp \in Samples : Len(heap[ret][smp]) = Len(x_orig[smp])

C9_Witness ==
    /\ pc = "returned" /\ rounds >= 2 /\ n_grad >= 2
    /\ \E smp \in Samples : heap[ret][smp] # x_orig[smp]


\* ------------------------------------------------------------------- C3
Pow(b, k) == LET RECURSIVE P(_)
                 P(j) == IF j = 0 THEN 1 ELSE b * P(j - 1)
             IN  P(k)

\* ceil(log_base(hi / lo)): the least k with lo * base^k >= hi, when one exists
HasCeilLog(b, lo, hi) == \E k \in 0..hi : lo * Pow(b, k) >= hi
CeilLog(b, lo, hi) ==
    CHOOSE k \in 0..hi : /\ lo * Pow(b, k) >= hi
                         /\ \A j \in 0..(k - 1) : lo * Pow(b, j) < hi

RoundBound == CeilLog(cfg.base, cfg.min_lambda_, cfg.max_lambda_) + 1

\* C3 as stated: for every accepted configuration, whatever the base, the
\* lambda loop runs the step attack at most ceil(log_base(max/min)) + 1 times.
C3_AnyBase ==
    (attack = "bca" /\ Accepted /\ HasCeilLog(cfg.base, cfg.min_lambda_, cfg.max_lambda_))
        => rounds <= RoundBound

\* C3 amended: for every accepted configuration with base > 1 the lambda loop
\* runs the step attack at most ceil(log_base(max/min)) + 1 times (and so
\* terminates).
C3_LambdaTermination ==
    (attack = "bca" /\ Accepted /\ cfg.base > 1)
        => /\ HasCeilLog(cfg.base, cfg.min_lambda_, cfg.max_lambda_)
           /\ rounds <= RoundBound
           /\ (pc = "bca_outer" /\ rounds = RoundBound
                  => ~LambdaInRange(lambda_, cfg.max_lambda_))

C3_Witness ==
    /\ attack = "bca" /\ Accepted /\ cfg.base > 1 /\ pc = "returned"
    /\ rounds = RoundBound /\ rounds >= 2

\* ------------------------------------------------------------------- C5
\* the position the oracle's gradient favours: the first position of its
\* maximal positive component (0 when no component is positive)
RawFav(g) ==
    IF \E d \in DOMAIN g : g[d] > 0
    THEN CHOOSE p \in DOMAIN g : /\ g[p] > 0
                                 /\ \A q \in DOMAIN g : g[q] <= g[p]
                                 /\ \A q \in DOMAIN g : q < p => g[q] < g[p]
    ELSE 0

\* the same among the positions of v that are off
OffFav(g, v) ==
    IF \E d \in DOMAIN g : v[d] <= Half /\ g[d] > 0
    THEN CHOOSE p \in DOMAIN g :
            /\ v[p] <= Half /\ g[p] > 0
            /\ \A q \in DOMAIN g : v[q] <= Half => g[q] <= g[p]
            /\ \A q \in DOMAIN g : (q < p /\ v[q] <= Half) => g[q] < g[p]
    ELSE 0

SetOn(v, p) == [d \in DOMAIN v |-> IF d = p THEN One ELSE v[d]]

\* the vector after the steps with gradients gs, each setting the position
\* favoured among the positions still off
RECURSIVE Ascent(_, _)
Ascent(v, gs) ==
    IF gs = <<>> THEN v ELSE Ascent(SetOn(v, OffFav(Head(gs), v)), Tail(gs))

RECURSIVE EveryStepHasOffFav(_, _)
EveryStepHasOffFav(v, gs) ==
    \/ gs = <<>>
    \/ /\ OffFav(Head(gs), v) # 0
       /\ EveryStepHasOffFav(SetOn(v, OffFav(Head(gs), v)), Tail(gs))

InStepAttack == attack = "bca" /\ pc \in {"bca_inner", "bca_ret"} /\ ~cfg.use_sample

\* C5 as stated: from an all-zero vector, after steps whose gradients have
\* their maximal positive component at p_1..p_t, the vector is the input with
\* exactly the positions p_1..p_t on.
C5_RawFavoured ==
    InStepAttack =>
        \A r \in DOMAIN sub_x :
            (/\ start_x[r] = ZeroVec(NDims)
             /\ \A j \in DOMAIN grads[r] : RawFav(grads[r][j]) # 0)
            => sub_x[r] = [d \in Dims(NDims) |->
                              IF \E j \in DOMAIN grads[r] : RawFav(grads[r][j]) = d
                              THEN One ELSE start_x[r][d]]

\* C5 amended: from an all-zero vector, after steps in which the maximal
\* positive gradient among the positions still off is at p_1..p_t, the vector
\* is the input with exactly p_1..p_t on; with ScenarioND dimensions and the
\* gradient favouring the 4th and then the 8th entry (positions 3 and 7
\* counted from 0), two steps give the vector with exactly these two on.
C5_BitCoordinateAscent ==
    InStepAttack =>
        /\ \A r \in DOMAIN sub_x :
              (start_x[r] = ZeroVec(NDims) /\ EveryStepHasOffFav(start_x[r], grads[r]))
              => /\ sub_x[r] = Ascent(start_x[r], grads[r])
                 /\ Cardinality({d \in Dims(NDims) : sub_x[r][d] # start_x[r][d]})
                       = Len(grads[r])
        /\ (/\ NDims = ScenarioND /\ pc = "bca_ret" /\ Len(grads[1]) = 2
            /\ RawFav(grads[1][1]) = 4 /\ RawFav(grads[1][2]) = 8)
           => sub_x[1] = [d \in Dims(NDims) |-> IF d \in {4, 8} THEN One ELSE 0]

C5_Witness ==
    /\ InStepAttack /\ NDims = ScenarioND /\ pc = "bca_ret" /\ Len(grads[1]) = 2
    /\ RawFav(grads[1][1]) = 4 /\ RawFav(grads[1][2]) = 8
    /\ sub_x[1] = [d \in Dims(NDims) |-> IF d \in {4, 8} THEN One ELSE 0]

\* ------------------------------------------------------------------ C10
AllEvade(b) == \A smp \in DOMAIN b : Evades(b[smp])

\* C10 as stated: after a success check that found every sample done there
\* is no further round of the step attack, no further gradient query, no
\* further escalation of lambda, and the vectors stay as they are.
C10_NoFurtherWork ==
    [][exit_seen # "no" =>
          /\ rounds' = rounds /\ n_grad' = n_grad /\ n_escal' = n_escal
          /\ Batch' = Batch]_vars

\* C10 amended: after a success check that found every sample done there is
\* no further round of the step attack and no further gradient query, and the
\* vectors stay as they are up to the return; lambda is not escalated after
\* such a check of perturb's own loop, and exactly once more (by the return
\* of BCA._perturb to line 117) after such a check inside BCA._perturb.  When
\* every input sample succeeds at the first check the returned batch equals
\* the input.
C10_EarlyExit ==
    /\ [][exit_seen # "no" =>
            /\ rounds' = rounds /\ n_grad' = n_grad /\ Batch' = Batch
            /\ (exit_seen = "outer" => n_escal' = n_escal)
            /\ (n_escal' # n_escal => pc = "bca_ret" /\ pc' # "bca_ret"
                                        /\ n_escal' = n_escal + 1)]_vars
    /\ [](pc = "returned" /\ AllEvade(x_orig) => heap[ret] = x_orig /\ n_grad = 0)

C10_Witness ==
    /\ pc = "returned" /\ exit_seen # "no" /\ n_grad >= 2 /\ n_escal >= 1
    /\ AllEvade(heap[ret]) /\ ~AllEvade(x_orig)

\* ------------------------------------------------------------------- C6
\* gp is g with its component along h removed: gp = g - (g.h / h.h) h
IsRejection(gp, g, h) ==
    LET hh == Dot(h, h)
        gh == Dot(g, h)
    IN  /\ gp.den > 0
        /\ Dot(gp.num, h) = 0
        /\ IF hh = 0
           THEN \A d \in DOMAIN g : gp.num[d] = g[d] * gp.den
           ELSE \A d \in DOMAIN g : gp.num[d] * hh = (g[d] * hh - gh * h[d]) * gp.den

IsUnchanged(gp, g) == \A d \in DOMAIN g : gp.num[d] = g[d] * gp.den

StepComputed == attack = "osm" /\ n_grad > 0

\* C6: with a projection toggle on, the projected gradient of each sample is
\* g' = g - (g.h / h.h) h of the two unprojected gradients, so g'.h = 0;
\* [1,1] projected against [1,0] is [0,1]; with the toggle of a side off
\* that side's gradient is passed through unchanged.
C6_OrthogonalProjection ==
    StepComputed =>
        \A r \in DOMAIN grad_detector :
            LET gd == grad_detector[r]
                gc == grad_classifier[r]
                gdp == grad_detector_proj[r]
                gcp == grad_classifier_proj[r]
            IN  /\ IF cfg.project_detector THEN IsRejection(gdp, gd, gc)
                                           ELSE IsUnchanged(gdp, gd)
                /\ IF cfg.project_classifier THEN IsRejection(gcp, gc, gd)
                                             ELSE IsUnchanged(gcp, gc)
                /\ (cfg.project_detector /\ gd = <<1, 1>> /\ gc = <<1, 0>>)
                      => \A d \in DOMAIN gd : gdp.num[d] = <<0, 1>>[d] * gdp.den
                /\ (cfg.project_classifier /\ gc = <<1, 1>> /\ gd = <<1, 0>>)
                      => \A d \in DOMAIN gc : gcp.num[d] = <<0, 1>>[d] * gcp.den

C6_Witness ==
    /\ StepComputed /\ cfg.project_detector /\ ~cfg.project_classifier
    /\ grad_detector[1] = <<1, 1>> /\ grad_classifier[1] = <<1, 0>>
    /\ grad_detector_proj[1] = [num |-> <<0, 1>>, den |-> 1]
    /\ grad_classifier_proj[1] = AsFrac(<<1, 0>>)

\* ------------------------------------------------------------------- C7
\* C7: every L-infinity step adds step_length times the sign of the gradient
\* to the current vector and clamps the result into [0, 1], so that a step
\* of the attack leaves the L-infinity candidate one step from the vector it
\* started at (three steps of 0.1 from all-0.5 under sign +1 give all-0.8).
C7_LinfStep ==
    StepComputed =>
        /\ adv_x_linf # Unbound
        /\ \A r \in DOMAIN sub_x : \A d \in Dims(NDims) :
              adv_x_linf[r][d] = Clamp(sub_x[r][d] + cfg.sl_linf * Sign(grad[r].num[d]))

\* ------------------------------------------------------------------- C4
\* C4: every checkpoint round of OrthogonalStepwiseMax.perturb that has run
\* its step attack retains a selected candidate for each active sample (whose
\* score is then at least the score of the candidate retained before).
C4_EnsembleImprovement ==
    (attack = "osm" /\ model.has_forward_g /\ rounds >= 1 /\ pc # "osm_inner")
        => /\ pert_x_cont # "None"
           /\ Len(pert_x_cont) = NKept(active)

\* ------------------------------------------------- the rounding projector
\* round_x(x, alpha) of tools.utils thresholds every entry at the cut point
\* alpha.  Whether an entry equal to alpha rounds up is left open by its
\* description; cfg.ties_up fixes it for a run.
round_x_inverted(x, alpha) ==
    [d \in DOMAIN x |-> IF x[d] < alpha \/ (cfg.ties_up /\ x[d] = alpha) THEN One ELSE 0]

round_x(x, alpha) ==
    [d \in DOMAIN x |-> IF x[d] > alpha \/ (cfg.ties_up /\ x[d] = alpha) THEN One ELSE 0]

\* the cut points that can be configured: alpha in [0, 1], in tenths
Thresholds == 0..One

\* continuous vectors with entries in [0, 1], in tenths
ContVecs(nd) == [Dims(nd) -> 0..One]

RoundInit ==
    /\ attack = "round_x"
    /\ trainer = <<>>
    /\ model = [has_forward_g |-> FALSE, evade |-> 0]
    /\ \E a \in Thresholds, u \in BOOLEAN :
          cfg = [round_threshold |-> a, ties_up |-> u]
    /\ \E v \in ContVecs(ND) : InitCommon(<<v>>)

\* one application of the projector to the working vector (perturb line 90,
\* fit line 326); start_x keeps the vector first given, grads the results
RoundX ==
    /\ attack = "round_x" /\ t < MaxSteps
    /\ LET cur == IF t = 0 THEN heap["x"] ELSE sub_x
       IN  /\ sub_x' = [r \in DOMAIN cur |-> round_x(cur[r], cfg.round_threshold)]
           /\ start_x' = IF t = 0 THEN cur ELSE start_x
           /\ grads' = Append(grads, sub_x')
    /\ t' = Inc(t)
    /\ UNCHANGED osm_vars
    /\ UNCHANGED <<attack, model, cfg, trainer, heap, adv_x, lambda_, done, active, grad, err,
                   rounds, n_grad, n_escal, n_rand, frozen, x_orig, exit_seen, pc, ret>>

RoundNext == RoundX

RoundSpec == RoundInit /\ [][RoundNext]_vars

\* -------------------------------------------------------------------- C8
IsDiscrete(v) == \A d \in DOMAIN v : v[d] \in {0, One}

Rounded == attack = "round_x" /\ t >= 1

\* C8 as stated: for every configurable threshold, rounding a vector whose
\* entries are all in {0,1} returns the same vector, and rounding twice
\* equals rounding once.
C8_EveryThreshold ==
    Rounded =>
        /\ IsDiscrete(start_x[1]) => grads[1][1] = start_x[1]
        /\ t >= 2 => grads[2] = grads[1]

\* C8 amended: for every threshold strictly between 0 and 1, rounding a
\* vector whose entries are all in {0,1} returns the same vector; hence
\* rounding twice equals rounding once.
C8_Idempotence ==
    (Rounded /\ 0 < cfg.round_threshold /\ cfg.round_threshold < One) =>
        /\ IsDiscrete(start_x[1]) => grads[1][1] = start_x[1]
        /\ t >= 2 => grads[2] = grads[1]

C8_Witness ==
    /\ Rounded /\ t = 2 /\ cfg.round_threshold = Half
    /\ IsDiscrete(start_x[1])
    /\ \E d1, d2 \in Dims(NDims) : start_x[1][d1] = 0 /\ start_x[1][d2] = One
    /\ sub_x = start_x

\* ------------------------------------------------------------------ C11
InRound == \/ attack = "bca" /\ pc \in {"bca_inner", "bca_ret"}
           \/ attack = "osm" /\ pc = "osm_inner"

\* C11: the step attack of every round gets exactly the samples that are
\* not done at the round's success check, and a sample excluded in one round
\* is excluded in every later round of the call.
C11_ActiveSubsetOnly ==
    /\ [](InRound =>
            /\ \A smp \in Samples : active[smp] <=> ~Evades(heap[adv_x][smp])
            /\ Len(sub_x) = Cardinality({smp \in Samples : ~Evades(heap[adv_x][smp])})
            /\ \A smp \in Samples :
                  active[smp] => start_x[Rank(active, smp)] = heap[adv_x][smp])
    /\ [][rounds >= 1 => \A smp \in Samples : ~active[smp] => ~active'[smp]]_vars

C11_Witness ==
    /\ attack = "bca" /\ pc = "bca_inner" /\ rounds >= 2
    /\ \E s1, s2 \in Samples :
          /\ ~active[s1] /\ heap[adv_x][s1] # x_orig[s1]
          /\ active[s2]

\* ------------------------------------------------------------------ C12
StartLambda == IF model.has_forward_g THEN cfg.min_lambda_ ELSE cfg.max_lambda_

InBcaRound == attack = "bca" /\ pc \in {"bca_inner", "bca_ret"}

\* C12 as stated: lambda starts at min_lambda_ with a detector objective and
\* at max_lambda_ without, is multiplied by base after each round, round r
\* (from 0) runs with start * base^r, and the step attack never runs with a
\* lambda outside [min_lambda_, max_lambda_].
C12_AnySchedule ==
    InBcaRound =>
        /\ lambda_ = StartLambda * Pow(cfg.base, rounds - 1)
        /\ cfg.min_lambda_ <= lambda_ /\ lambda_ <= cfg.max_lambda_

\* C12 amended: the same, the lower limit of the range holding when base is
\* at least 1: round r runs with start * base^r, never above max_lambda_, and
\* never below min_lambda_ when base >= 1.
C12_LambdaSchedule ==
    /\ [](InBcaRound =>
            /\ lambda_ = StartLambda * Pow(cfg.base, rounds - 1)
            /\ lambda_ <= cfg.max_lambda_
            /\ (cfg.base >= 1 => cfg.min_lambda_ <= lambda_))
    /\ [](attack = "bca" /\ pc = "bca_outer" /\ rounds = 0 => lambda_ = StartLambda)
    /\ [][attack = "bca" /\ pc = "bca_ret" => lambda_' = lambda_ * cfg.base]_vars

C12_Witness ==
    /\ InBcaRound /\ model.has_forward_g /\ cfg.base > 1 /\ rounds = 2
    /\ lambda_ = cfg.min_lambda_ * cfg.base /\ lambda_ = cfg.max_lambda_

\* ------------------------------------------------------------------ C13
\* a checkpoint round whose step attack is over
RoundOver == attack = "osm" /\ model.has_forward_g /\ rounds >= 1 /\ pc # "osm_inner"

\* C13: at each checkpoint the step attack has returned its candidates and,
\* for every active sample, the candidate kept is one of that sample's own
\* candidates (the best-scored of them).  The step raises before its L2 and
\* L1 candidates exist, so the L-infinity candidate is the only one to name.
C13_EnsembleSelection ==
    RoundOver =>
        /\ pc # "error"
        /\ adv_x_linf # Unbound
        /\ pert_x_cont # "None"
        /\ \A smp \in Samples :
              active[smp] => pert_x_cont[Rank(active, smp)] \in {adv_x_linf[Rank(active, smp)]}

\* ------------------------------------------------------------------ C14
\* the vector of sample smp at the start of the round under way
RoundStart(smp) == start_x[Rank(active, smp)]

\* C14: after lambda is escalated the step attack starts, for every sample
\* still active, from the vector the previous round left for it; the pristine
\* input is the start in the first round only and is not restored later.
C14_Reseeding ==
    /\ [](InBcaRound =>
            \A smp \in Samples : active[smp] =>
                /\ RoundStart(smp) = heap[adv_x][smp]
                /\ (rounds = 1 => RoundStart(smp) = x_orig[smp]))
    /\ [](attack = "osm" /\ pc = "osm_inner" =>
            \A smp \in Samples : active[smp] =>
                rounds = 1 /\ RoundStart(smp) = x_orig[smp])
    /\ [][attack = "bca" /\ pc = "bca_ret" =>
            \A smp \in Samples : active[smp] =>
                heap'[adv_x][smp] = sub_x[Rank(active, smp)]]_vars
    /\ [][attack = "bca" /\ pc = "bca_outer" /\ pc' \in {"bca_inner", "bca_ret"} =>
            \A smp \in Samples : active'[smp] =>
                start_x'[Rank(active', smp)] = heap[adv_x][smp]]_vars

C14_Witness ==
    /\ InBcaRound /\ rounds >= 2 /\ n_escal >= 1
    /\ \E smp \in Samples :
          active[smp] /\ RoundStart(smp) # x_orig[smp] /\ RoundStart(smp) = heap[adv_x][smp]

\* ------------------------------------------------------------------ C15
\* C15: once a checkpoint round has rounded its selected candidates into the
\* working state, every entry of an active sample is 0 or 1 and no feature
\* that is on in the input at a position not removable is off.
C15_RoundingHonorsConstraints ==
    RoundOver =>
        /\ pc # "error"
        /\ \A smp \in Samples : active[smp] =>
              \A d \in Dims(NDims) :
                 /\ heap[adv_x][smp][d] \in {0, One}
                 /\ (x_orig[smp][d] > Half /\ ~cfg.manipulation_x[d])
                       => heap[adv_x][smp][d] > Half

\* ------------------------------------------------------------------ C16
\* no loss, success or gradient query has been issued to the model: done is
\* assigned by every success check, n_grad counts the gradient queries
NoQuery == done = <<>> /\ n_grad = 0 /\ rounds = 0

\* C16: BCA.perturb called with bounds that do not satisfy
\* 0 < min_lambda_ <= max_lambda_ fails with an error before any query is
\* issued to the model and returns no batch.
C16_LambdaBoundsRejected ==
    (attack = "bca" /\ pc # "start"
       /\ ~(0 < cfg.min_lambda_ /\ cfg.min_lambda_ <= cfg.max_lambda_))
        => /\ pc = "error" /\ err = "AssertionError"
           /\ NoQuery
           /\ ret = "none" /\ adv_x = "none"

C16_Witness ==
    /\ attack = "bca" /\ pc = "error" /\ err = "AssertionError"
    /\ cfg.min_lambda_ = 0 /\ cfg.max_lambda_ >= 1 /\ NoQuery

\* ------------------------------------------------------------------ C17
NonPositiveSteps ==
    \/ attack = "bca" /\ cfg.m <= 0
    \/ attack = "osm" /\ (cfg.steps <= 0 \/ cfg.step_check <= 0)

\* C17: a call configured with a non-positive step count is rejected as a
\* configuration error before any query is issued to the model.
C17_StepCountsRejected ==
    (NonPositiveSteps /\ pc # "start") => pc = "error" /\ NoQuery

\* ------------------------------------------------------------------ C18
\* C18: without a detector objective the orthogonal step attack does not
\* abort: the round it was called for ends without an error.
C18_MissingDetectorDegrades ==
    (attack = "osm" /\ ~model.has_forward_g /\ rounds >= 1) => pc # "error"

\* ------------------------------------------------------------------ C19
\* C19: a call of perturb or of the step attack on a batch of no samples
\* raises no error, issues no gradient query and returns the batch unchanged.
C19_EmptyBatch ==
    Samples = {} =>
        /\ pc # "error"
        /\ n_grad = 0
        /\ (pc = "returned" => heap[ret] = x_orig)

\* ------------------------------------------------------------------ C20
\* the constrained gradient of bit coordinate ascent is zero everywhere
NoValidDirection(g, v) == \A d \in DOMAIN v : ~(g[d] > 0 /\ v[d] <= Half)

\* C20: a step in which a sample has no position with a valid direction
\* leaves the vector of that sample unchanged (bit coordinate ascent flips
\* none of its features).
C20_NoValidDirection ==
    [][attack = "bca" /\ pc = "bca_inner" /\ n_grad' = n_grad + 1 /\ ~cfg.use_sample =>
          \A r \in DOMAIN sub_x :
              NoValidDirection(grad'[r], sub_x[r]) => sub_x'[r] = sub_x[r]]_vars

\* ------------------------------------------------- the L2 normalisation
\* A quotient num / sqrt(norm2) of a gradient component by the L2 norm of
\* its row.  In IEEE arithmetic 0 / 0 is NaN, and torch.minimum, the sum
\* and torch.clamp all propagate NaN.
IsNaN(q) == q.norm2 = 0 /\ q.num = 0

\* lines 195-199: torch.minimum(1, grad / l2norm) on one row; a component
\* never exceeds the norm of its row, so the minimum is the quotient (the
\* common denominator of the row cancels)
L2Perturbation(g) ==
    LET n2 == Dot(g.num, g.num)
    IN  [d \in DOMAIN g.num |-> [num |-> g.num[d], norm2 |-> n2]]

\* The expressions of one iteration evaluated on their own: a batch, the
\* projection switches, the period k, and everything else as __init__
\* leaves it.
NormInit ==
    /\ attack = "l2norm"
    /\ trainer = <<>>
    /\ model = [has_forward_g |-> TRUE, evade |-> 0]
    /\ \E pd \in BOOLEAN, pcl \in BOOLEAN, kk \in 0..MaxCheck :
          cfg = [OsmDefaults EXCEPT !.steps = MaxSteps + 1, !.project_detector = pd,
                                    !.project_classifier = pcl, !.k = kk,
                                    !.manipulation_x = [d \in Dims(ND) |-> TRUE]]
    /\ \E b \in OsmBatches(NS, ND) : InitCommon(b)

\* lines 129-186 on the batch, for an index t of the loop: the gradient
\* selected for the update
NormGrads ==
    /\ attack = "l2norm" /\ pc = "start"
    /\ \E tt \in 0..(cfg.steps - 1), a \in OsmAnswers(DOMAIN heap["x"], NDims) :
         LET sg == StepGrads(a, heap["x"], tt)
         IN  /\ t' = tt
             /\ answer' = a
             /\ grad_classifier' = sg.classifier
             /\ grad_detector' = sg.detector
             /\ grad_detector_proj' = sg.detector_proj
             /\ grad_classifier_proj' = sg.classifier_proj
             /\ has_attack_succeeded' = [r \in DOMAIN a |-> a[r].succeeded]
             /\ grad' = sg.grad
    /\ pc' = "graded"
    /\ UNCHANGED <<adv_x_linf, adv_x_l2, adv_x_l1, pert_x_cont, prev_done, mini_steps, i>>
    /\ UNCHANGED <<attack, model, cfg, trainer, heap, adv_x, lambda_, done, active, sub_x, err,
                   rounds, n_grad, n_escal, n_rand, frozen, x_orig, start_x, grads,
                   exit_seen, ret>>

\* lines 195-199 on that gradient; grads keeps the perturbation of each row
NormL2 ==
    /\ attack = "l2norm" /\ pc = "graded"
    /\ grads' = [r \in DOMAIN grad |-> L2Perturbation(grad[r])]
    /\ pc' = "normed"
    /\ UNCHANGED osm_vars
    /\ UNCHANGED <<attack, model, cfg, trainer, heap, adv_x, lambda_, done, active, sub_x, grad,
                   err, t, rounds, n_grad, n_escal, n_rand, frozen, x_orig, start_x,
                   exit_seen, ret>>

NormNext == NormGrads \/ NormL2

NormSpec == NormInit /\ [][NormNext]_vars

MaxEpochs == 3
MaxAcc == 2

InitialParams == <<"__init__", 0>>

NoFile == [params |-> <<"none", 0>>, tau |-> <<"none", 0>>]

\* a strict comparison: a tie keeps the earlier epoch
ImprovesStrictly(acc, best_avg_acc) == acc > best_avg_acc

\* the test that guards the save (maldet.py line 220, amd_dla.py lines 270
\* and 365, principled_adv_training.py line 135)
Improves(acc, best_avg_acc) == acc >= best_avg_acc

\* whether the routine computes the threshold before it saves: get_threshold
\* at amd_dla.py line 368, self.model.tau at principled_adv_training.py 137
SetsTau(tr) ==
    \/ tr.routine = "principled_adv_training"
    \/ tr.routine = "amd_dla" /\ tr.phase = "fit"

\* the locals at the top of a routine: best_avg_acc = 0., best_epoch = 0
FitLocals(tr, phase) ==
    [tr EXCEPT !.phase = phase, !.i = 0, !.best_avg_acc = 0, !.best_epoch = 0,
               !.accs = <<>>]

FitInit ==
    /\ attack = "fit"
    /\ model = [has_forward_g |-> TRUE, evade |-> 0]
    /\ cfg = BcaDefaults
    /\ InitCommon(<<>>)
    /\ \E rt \in {"maldet", "principled_adv_training", "amd_dla"},
          md \in BOOLEAN, ep \in 0..MaxEpochs :
          /\ md => rt = "amd_dla"
          /\ trainer = [routine |-> rt, is_fitting_md_model |-> md, epochs |-> ep,
                        phase |-> IF md THEN "_fit_md" ELSE "fit",
                        i |-> 0, best_avg_acc |-> 0, best_epoch |-> 0,
                        params |-> InitialParams, tau |-> InitialParams,
                        file |-> NoFile, accs |-> <<>>]

\* one pass of the loop over the epochs: the training batches, the
\* validation accuracy, the comparison with the best one and the save
FitEpoch ==
    /\ attack = "fit" /\ trainer.phase \in {"_fit_md", "fit"}
    /\ trainer.i < trainer.epochs
    /\ \E acc \in 0..MaxAcc :
         LET trained == <<trainer.phase, trainer.i>>
             tau_ == IF SetsTau(trainer) THEN trained ELSE trainer.tau
         IN  trainer' =
                IF Improves(acc, trainer.best_avg_acc)
                THEN [trainer EXCEPT !.params = trained, !.best_avg_acc = acc,
                                     !.best_epoch = trainer.i, !.tau = tau_,
                                     !.file = [params |-> trained, tau |-> tau_],
                                     !.accs = Append(trainer.accs, acc),
                                     !.i = trainer.i + 1]
                ELSE [trainer EXCEPT !.params = trained,
                                     !.accs = Append(trainer.accs, acc),
                                     !.i = trainer.i + 1]
    /\ UNCHANGED osm_vars
    /\ UNCHANGED <<attack, model, cfg, heap, adv_x, lambda_, done, active, sub_x, grad,
                   err, t, rounds, n_grad, n_escal, n_rand, frozen, x_orig, start_x,
                   grads, exit_seen, pc, ret>>

\* amd_dla.py lines 300-314: _fit_md has returned, fit starts its own loop
FitMdReturn ==
    /\ attack = "fit" /\ trainer.phase = "_fit_md" /\ trainer.i = trainer.epochs
    /\ trainer' = FitLocals(trainer, "fit")
    /\ UNCHANGED osm_vars
    /\ UNCHANGED <<attack, model, cfg, heap, adv_x, lambda_, done, active, sub_x, grad,
                   err, t, rounds, n_grad, n_escal, n_rand, frozen, x_orig, start_x,
                   grads, exit_seen, pc, ret>>

\* the loop of fit is over
FitReturn ==
    /\ attack = "fit" /\ trainer.phase = "fit" /\ trainer.i = trainer.epochs
    /\ trainer' = [trainer EXCEPT !.phase = "returned"]
    /\ UNCHANGED osm_vars
    /\ UNCHANGED <<attack, model, cfg, heap, adv_x, lambda_, done, active, sub_x, grad,
                   err, t, rounds, n_grad, n_escal, n_rand, frozen, x_orig, start_x,
                   grads, exit_seen, pc, ret>>

FitNext == FitEpoch \/ FitMdReturn \/ FitReturn

FitSpec == FitInit /\ [][FitNext]_vars

\* the routine whose loop produced the accuracies in trainer.accs
Routine == IF trainer.phase = "returned" THEN "fit" ELSE trainer.phase

\* the last epoch among those of the highest validation accuracy
BestEpoch(accs) ==
    CHOOSE e \in DOMAIN accs :
        /\ \A o \in DOMAIN accs : accs[o] <= accs[e]
        /\ \A o \in DOMAIN accs : accs[o] = accs[e] => o <= e

LegalMove(raw, v, removable) ==
    \/ raw >= 0 /\ v <= Half
    \/ raw < 0 /\ v > Half /\ removable

Filtered(raw, v, out) ==
    \A d \in DOMAIN raw :
        out[d] = IF LegalMove(raw[d], v[d], cfg.manipulation_x[d]) THEN raw[d] ELSE 0

\* C23: at every position trans_grads returns the raw gradient where the
\* move is legal and zero elsewhere, for the classifier's gradient and for
\* the detector's.
C23_ConstraintFilter ==
    StepComputed =>
        \A r \in DOMAIN answer :
            /\ Filtered(answer[r].classifier, sub_x[r], grad_classifier[r])
            /\ Filtered(answer[r].detector, sub_x[r], grad_detector[r])

C23_Witness ==
    /\ StepComputed
    /\ \E r \in DOMAIN answer, d \in Dims(NDims) :
          /\ answer[r].classifier[d] < 0 /\ sub_x[r][d] > Half
          /\ cfg.manipulation_x[d] /\ grad_classifier[r][d] < 0
    /\ \E r \in DOMAIN answer, d \in Dims(NDims) :
          /\ answer[r].classifier[d] < 0 /\ sub_x[r][d] <= Half
          /\ grad_classifier[r][d] = 0
    /\ \E r \in DOMAIN answer, d \in Dims(NDims) :
          /\ answer[r].detector[d] > 0 /\ sub_x[r][d] <= Half /\ grad_detector[r][d] > 0
    /\ \E r \in DOMAIN answer, d \in Dims(NDims) :
          /\ answer[r].detector[d] > 0 /\ sub_x[r][d] > Half /\ grad_detector[r][d] = 0

Graded == attack = "l2norm" /\ pc # "start"

RoundDiv(a, b) == (2 * a + b) \div (2 * b)

Abs(a) == IF a < 0 THEN -a ELSE a

\* the sets of n coordinates of the largest magnitude of g
TopK(g, n) ==
    {K \in SUBSET DOMAIN g :
        /\ Cardinality(K) = Min2(n, Len(g))
        /\ \A d \in K, o \in DOMAIN g \ K : Abs(g[d]) >= Abs(g[o])}

\* C26: an iteration of the step attack leaves an L1 candidate in which the
\* round(1 / step_length_l1) coordinates of the largest gradient magnitude
\* have moved by step_length_l1 in the direction of the gradient's sign,
\* clamped to [0,1], and no other coordinate has changed.
C26_L1Step ==
    StepComputed =>
        /\ adv_x_l1 # Unbound
        /\ \A r \in DOMAIN sub_x :
              \E K \in TopK(grad[r].num, RoundDiv(One, cfg.sl_l1)) :
                 \A d \in DOMAIN sub_x[r] :
                    adv_x_l1[r][d] = IF d \in K
                                     THEN Clamp(sub_x[r][d] + cfg.sl_l1 * Sign(grad[r].num[d]))
                                     ELSE sub_x[r][d]

\* C27: the random start happens at most once in a call, before the first
\* gradient query, and not at all when it is disabled.
C27_RandomStartOnce ==
    /\ [](n_rand <= 1)
    /\ [](attack = "bca" /\ ~cfg.use_sample => n_rand = 0)
    /\ [](attack = "osm" /\ ~cfg.use_random => n_rand = 0)
    /\ [][n_rand' # n_rand => n_grad = 0]_vars

\* the coordinates in which two vectors differ
Changed(v, w) == {d \in DOMAIN v : v[d] # w[d]}

\* C29: from a binary batch and without the random start, an iteration of
\* BCA._perturb changes every row in at most one coordinate, and only from 0
\* to 1; after t iterations every row is binary, nowhere below the row
\* _perturb was called with, and differs from it in at most t coordinates,
\* hence in at most m at the return.
C29_SingleBitSteps ==
    /\ [][InStepAttack /\ pc = "bca_inner" =>
            \A r \in DOMAIN sub_x :
                /\ Cardinality(Changed(sub_x[r], sub_x'[r])) <= 1
                /\ \A d \in Changed(sub_x[r], sub_x'[r]) :
                      sub_x[r][d] = 0 /\ sub_x'[r][d] = One]_vars
    /\ [](InStepAttack =>
            /\ t <= cfg.m
            /\ \A r \in DOMAIN sub_x :
                  /\ \A d \in DOMAIN sub_x[r] :
                        sub_x[r][d] \in {0, One} /\ sub_x[r][d] >= start_x[r][d]
                  /\ Cardinality(Changed(start_x[r], sub_x[r])) <= t)

C29_Witness ==
    /\ InStepAttack /\ pc = "bca_ret" /\ cfg.m = 2 /\ t = 2
    /\ \E r \in DOMAIN sub_x, o \in DOMAIN sub_x :
          /\ Cardinality(Changed(start_x[r], sub_x[r])) = 2
          /\ Cardinality(Changed(start_x[o], sub_x[o])) = 1

\* C28: a call whose budget spans several checkpoint chunks reaches its
\* later checkpoints, and at each of them the done set contains the done set
\* of the checkpoint before, the rows taken from the previous candidates are
\* as many as the samples still active, and each of these samples resumes
\* from its own previous candidate.
C28_ReseedAlignment ==
    /\ [](RoundOver /\ Len(mini_steps) >= 2 => pc # "error" /\ i >= 1)
    /\ [][attack = "osm" /\ pc = "osm_check" /\ pc' = "osm_inner" /\ i >= 1 =>
            /\ \A smp \in Samples : prev_done[smp] => done'[smp]
            /\ Len(pert_x_cont) = NKept(Not(prev_done))
            /\ NKept(Gather(Not(done'), Not(prev_done))) = NKept(Not(done'))
            /\ \A smp \in Samples :
                  ~done'[smp] =>
                      heap'[adv_x][smp] = pert_x_cont[Rank(Not(prev_done), smp)]]_vars

\* a call of the orthogonal attack whose arguments were accepted
Scheduled == attack = "osm" /\ adv_x # "none"

SumSeq(q) == LET RECURSIVE S(_)
                 S(j) == IF j = 0 THEN 0 ELSE q[j] + S(j - 1)
             IN  S(Len(q))

\* C30: the checkpoint chunks are between 1 and step_check long, all but the
\* last exactly step_check, and add up to steps; a call that no success
\* check ends early returns after exactly steps iterations (two gradient
\* queries each); with steps = 0 no round runs and the batch returned equals
\* the input.
C30_CheckpointSchedule ==
    Scheduled =>
        /\ \A j \in DOMAIN mini_steps :
              /\ 1 <= mini_steps[j] /\ mini_steps[j] <= cfg.step_check
              /\ j < Len(mini_steps) => mini_steps[j] = cfg.step_check
        /\ SumSeq(mini_steps) = cfg.steps
        /\ (cfg.steps = 0 =>
              /\ rounds = 0 /\ n_grad = 0
              /\ (pc = "returned" => heap[ret] = x_orig))
        /\ (model.has_forward_g /\ exit_seen = "no" /\ pc \in {"returned", "error"} =>
              pc = "returned" /\ n_grad = 2 * cfg.steps)

====
